---- MODULE Spec2Model ----
(***************************************************************************)
(* PyMISPWarningLists: the matching engine of pymispwarninglists/api.py.   *)
(*                                                                         *)
(*   NetworkFilter            the binary trie over address bits            *)
(*   compile_network_filters  the IPv4 and the IPv6 trie of a cidr list    *)
(*   WarningList              one list, fast (exact) and slow (typed)      *)
(*   WarningLists             the catalog, name -> WarningList             *)
(*                                                                         *)
(* Address widths are scaled down: an IPv4 address has V4Bits bits (32 in  *)
(* the ipaddress module), an IPv6 address V6Bits bits (128).  The text of  *)
(* an address is its bits as one-bit groups joined by "." (IPv4) or ":"    *)
(* (IPv6), a network is an address text, "/" and a prefix length digit.    *)
(* Strings are sequences of one-character strings.                         *)
(***************************************************************************)
EXTENDS Integers, Sequences, FiniteSets, TLC

VARIABLES
    ipv4_filter,    \* compile_network_filters: the trie rooted at V4Bits - 1
    ipv6_filter,    \* compile_network_filters: the trie rooted at V6Bits - 1
    appended,       \* the networks handed to root.append so far, in order
    raised,         \* the exception that left the last call, or "none"
    built,          \* "no" | "yes" | "failed": the outcome of the constructor
    given,          \* WarningList(record, ...): the record
    lists,          \* WarningLists(lists=...): the argument
    slow,           \* the constructor's slow_search argument
    wl,             \* the WarningList a direct construction returned
    on_disk,        \* the records of the list.json files WarningLists() found
    warninglists,   \* WarningLists.warninglists: name -> WarningList
    value,          \* the last value searched for
    found,          \* the result of the last `value in wl`
    matches,        \* the result of the last WarningLists.search
    dumped          \* the result of the last to_dict

vars == <<ipv4_filter, ipv6_filter, appended, raised, built, given, lists, slow, wl,
          on_disk, warninglists, value, found, matches, dumped>>

trieVars == <<ipv4_filter, ipv6_filter, appended>>
listVars == <<built, given, lists, slow, wl, on_disk, warninglists,
              value, found, matches, dumped>>

-----------------------------------------------------------------------------
(* Bounds *)

V4Bits == 2
V6Bits == 3
MaxNets == 2
MaxEntries == 2
MaxEntryLen == 2
MaxLists == 2
MaxHostLen == 3

-----------------------------------------------------------------------------
(* ipaddress: networks as objects *)

Pow2(n) == IF n <= 0 THEN 1 ELSE 2 ^ n

MaxPrefixLen(version) == IF version = 4 THEN V4Bits ELSE V6Bits

\* An IPv4Network / IPv6Network object: the network address has no host bit.
Network(version, address, prefixlen) ==
    [version |-> version, network_address |-> address, prefixlen |-> prefixlen]

NetworksOf(version) ==
    { Network(version, x[1], x[2]) :
        x \in { y \in (0 .. Pow2(MaxPrefixLen(version)) - 1)
                        \X (0 .. MaxPrefixLen(version)) :
                y[1] % Pow2(MaxPrefixLen(version) - y[2]) = 0 } }

Networks == NetworksOf(4) \cup NetworksOf(6)

Addresses(version) == 0 .. Pow2(MaxPrefixLen(version)) - 1

\* The addresses of a network: network_address .. broadcast_address.
InNetwork(ip, net) ==
    /\ net.network_address <= ip
    /\ ip <= net.network_address
               + Pow2(MaxPrefixLen(net.version) - net.prefixlen) - 1

-----------------------------------------------------------------------------
(* NetworkFilter *)

\* A child of a node: a bool, or a nested NetworkFilter.
Bool(b) == [isbool |-> TRUE, val |-> b]

\* NetworkFilter(digit_position): digit2filter defaults to {0: False, 1: False}.
NetworkFilter(digit_position) ==
    [isbool |-> FALSE, digit_position |-> digit_position,
     digit2filter |-> [d \in {0, 1} |-> Bool(FALSE)]]

\* (ip >> digit_position) & 1; a negative shift count raises ValueError.
GetDigit(digit_position, ip) == (ip \div Pow2(digit_position)) % 2

ShiftRaises(digit_position) == digit_position < 0

\* NetworkFilter.append: the filter after the call, and whether it raised.
RECURSIVE append(_, _)
append(self, net) ==
    IF ShiftRaises(self.digit_position)
    THEN [filter |-> self, raised |-> TRUE]
    ELSE
      LET digit == GetDigit(self.digit_position, net.network_address)
          child == self.digit2filter[digit]
      IN  IF MaxPrefixLen(net.version) - net.prefixlen = self.digit_position
          THEN [filter |-> [self EXCEPT !.digit2filter[digit] = Bool(TRUE)],
                raised |-> FALSE]
          ELSE
            LET sub == IF child = Bool(FALSE)
                       THEN NetworkFilter(self.digit_position - 1)
                       ELSE child
            IN  IF sub = Bool(TRUE)
                THEN [filter |-> self, raised |-> FALSE]
                ELSE LET r == append(sub, net)
                     IN  [filter |-> [self EXCEPT !.digit2filter[digit] = r.filter],
                          raised |-> r.raised]

\* NetworkFilter.__contains__: "True", "False", or "raise" (negative shift).
RECURSIVE contains(_, _)
contains(self, ip) ==
    IF ShiftRaises(self.digit_position)
    THEN "raise"
    ELSE LET child == self.digit2filter[GetDigit(self.digit_position, ip)]
         IN  IF child.isbool
             THEN IF child.val THEN "True" ELSE "False"
             ELSE contains(child, ip)

-----------------------------------------------------------------------------
(* Strings, and the texts the ipaddress module parses *)

Digits == <<"0", "1", "2", "3", "4", "5", "6", "7", "8", "9">>

IsDigit(c) == \E i \in 1 .. Len(Digits) : Digits[i] = c

DigitValue(c) == (CHOOSE i \in 1 .. Len(Digits) : Digits[i] = c) - 1

Sep(version) == IF version = 4 THEN "." ELSE ":"

\* int(text) of a non-empty run of decimal digits.
RECURSIVE Decimal(_)
Decimal(s) ==
    IF s = <<>> THEN 0
    ELSE 10 * Decimal(SubSeq(s, 1, Len(s) - 1)) + DigitValue(s[Len(s)])

\* The value of groups 1 .. n of an address text, most significant first.
RECURSIVE GroupsValue(_, _)
GroupsValue(s, n) ==
    IF n = 0 THEN 0 ELSE 2 * GroupsValue(s, n - 1) + DigitValue(s[2 * n - 1])

\* IPv4Address(value) / IPv6Address(value): int of the address, or -1 for
\* AddressValueError.  An address is max_prefixlen one-bit groups.
IPAddress(version, s) ==
    IF /\ Len(s) = 2 * MaxPrefixLen(version) - 1
       /\ \A k \in 1 .. Len(s) :
             IF k % 2 = 1 THEN s[k] \in {"0", "1"} ELSE s[k] = Sep(version)
    THEN GroupsValue(s, MaxPrefixLen(version))
    ELSE -1

NoNetwork == [version |-> 0, network_address |-> 0, prefixlen |-> 0]

\* IPv4Network(value) / IPv6Network(value), strict: address, optional "/" and
\* prefix length; more than one "/", a bad address, a bad prefix length or a
\* host bit set raise a ValueError (NoNetwork).
IPNetwork(version, s) ==
    LET slashes == { k \in 1 .. Len(s) : s[k] = "/" }
        cut == IF slashes = {} THEN Len(s) + 1 ELSE CHOOSE k \in slashes : TRUE
        addr == IPAddress(version, SubSeq(s, 1, cut - 1))
        pfx == SubSeq(s, cut + 1, Len(s))
        pfxOk == /\ pfx # <<>>
                 /\ \A k \in 1 .. Len(pfx) : IsDigit(pfx[k])
        prefixlen == IF slashes = {} THEN MaxPrefixLen(version)
                     ELSE IF pfxOk THEN Decimal(pfx) ELSE -1
    IN  IF /\ Cardinality(slashes) <= 1
           /\ addr >= 0
           /\ prefixlen >= 0
           /\ prefixlen <= MaxPrefixLen(version)
           /\ addr % Pow2(MaxPrefixLen(version) - prefixlen) = 0
        THEN Network(version, addr, prefixlen)
        ELSE NoNetwork

\* ip_network(value): IPv4Network, else IPv6Network, else ValueError.
ip_network(s) ==
    IF IPNetwork(4, s) # NoNetwork THEN IPNetwork(4, s) ELSE IPNetwork(6, s)

\* convert_networks: the networks of the values that parse, in order; a value
\* that raises ValueError goes to invalid_ips and is only logged.
RECURSIVE convert_networks(_)
convert_networks(values) ==
    IF values = <<>> THEN <<>>
    ELSE LET net == ip_network(Head(values))
         IN  (IF net # NoNetwork THEN <<net>> ELSE <<>>)
                 \o convert_networks(Tail(values))

-----------------------------------------------------------------------------
(* compile_network_filters, one network of the loop at a time *)

\* Values of the variables a specification does not use.
None == [none |-> TRUE]

\* The lists argument: None (the default) or a list of records.
NoLists == [none |-> TRUE, seq |-> <<>>]
Lists(seq) == [none |-> FALSE, seq |-> seq]

\* A dict: its keys in insertion order, and the value of each key.
EmptyDict == [keys |-> <<>>, vals |-> <<>>]

InitTrie ==
    /\ ipv4_filter = NetworkFilter(V4Bits - 1)
    /\ ipv6_filter = NetworkFilter(V6Bits - 1)
    /\ appended = <<>>
    /\ raised = "none"
    /\ built = "no"
    /\ given = None
    /\ lists = NoLists
    /\ slow = FALSE
    /\ wl = None
    /\ on_disk = <<>>
    /\ warninglists = EmptyDict
    /\ value = <<>>
    /\ found = "none"
    /\ matches = <<>>
    /\ dumped = None

\* One pass of the loop body (api.py lines 207-209) over the pair of tries:
\*   root = ipv4_filter if isinstance(net, IPv4Network) else ipv6_filter
\*   root.append(net)
LoopBody(f, net) ==
    LET root == IF net.version = 4 THEN f.ipv4_filter ELSE f.ipv6_filter
        r == append(root, net)
    IN  [ipv4_filter |-> IF net.version = 4 THEN r.filter ELSE f.ipv4_filter,
         ipv6_filter |-> IF net.version = 4 THEN f.ipv6_filter ELSE r.filter,
         raised |-> r.raised]

\* compile_network_filters over network objects: the loop stops at the first
\* exception, which leaves the function.
RECURSIVE CompileFrom(_, _)
CompileFrom(f, networks) ==
    IF networks = <<>> \/ f.raised
    THEN f
    ELSE CompileFrom(LoopBody(f, Head(networks)), Tail(networks))

EmptyFilters ==
    [ipv4_filter |-> NetworkFilter(V4Bits - 1),
     ipv6_filter |-> NetworkFilter(V6Bits - 1),
     raised |-> FALSE]

compile_networks(networks) == CompileFrom(EmptyFilters, networks)

\* compile_network_filters(values)
compile_network_filters(values) == compile_networks(convert_networks(values))

AppendNetwork ==
    /\ raised = "none"
    /\ Len(appended) < MaxNets
    /\ \E net \in Networks :
           /\ LET r == LoopBody([ipv4_filter |-> ipv4_filter,
                                 ipv6_filter |-> ipv6_filter,
                                 raised |-> FALSE], net)
              IN  /\ ipv4_filter' = r.ipv4_filter
                  /\ ipv6_filter' = r.ipv6_filter
                  /\ raised' = IF r.raised THEN "ValueError" ELSE "none"
           /\ appended' = Append(appended, net)
    /\ UNCHANGED listVars

NextTrie == AppendNetwork

SpecTrie == InitTrie /\ [][NextTrie]_vars

-----------------------------------------------------------------------------
(* str methods and urllib.parse.urlparse(value).hostname *)

\* value.endswith(suffix)
EndsWith(s, suffix) ==
    /\ Len(suffix) <= Len(s)
    /\ SubSeq(s, Len(s) - Len(suffix) + 1, Len(s)) = suffix

\* v.lstrip(".")
RECURSIVE LStripDots(_)
LStripDots(s) ==
    IF s # <<>> /\ Head(s) = "." THEN LStripDots(Tail(s)) ELSE s

\* v in value, for strings: v is a contiguous part of value.
IsSubstring(v, s) ==
    \E i \in 1 .. Len(s) + 1 :
        /\ i + Len(v) - 1 <= Len(s)
        /\ SubSeq(s, i, i + Len(v) - 1) = v

Letters == {"a", "b", "A", "B"}

Lower(c) == IF c = "A" THEN "a" ELSE IF c = "B" THEN "b" ELSE c

\* The first index of a character of cs in s at or after from, else Len(s) + 1.
Find(s, cs, from) ==
    IF \E k \in from .. Len(s) : s[k] \in cs
    THEN CHOOSE k \in from .. Len(s) :
             s[k] \in cs /\ \A j \in from .. k - 1 : s[j] \notin cs
    ELSE Len(s) + 1

\* urlsplit: a leading scheme (a letter, then letters, digits, "+", "-", "."
\* up to the first ":") is cut off; the netloc is what follows a leading "//"
\* up to the next "/", "?" or "#".
Netloc(url) ==
    LET colon == Find(url, {":"}, 1)
        isScheme == /\ colon <= Len(url)
                    /\ colon > 1
                    /\ url[1] \in Letters
                    /\ \A k \in 1 .. colon - 1 :
                          url[k] \in Letters \cup {"+", "-", "."} \/ IsDigit(url[k])
        rest == IF isScheme THEN SubSeq(url, colon + 1, Len(url)) ELSE url
    IN  IF Len(rest) >= 2 /\ rest[1] = "/" /\ rest[2] = "/"
        THEN SubSeq(rest, 3, Find(rest, {"/", "?", "#"}, 3) - 1)
        ELSE <<>>

\* .hostname: the netloc after its last "@" and before its first ":",
\* lower-cased; None (here the empty string) when that is empty.
Hostname(url) ==
    LET netloc == Netloc(url)
        ats == { k \in 1 .. Len(netloc) : netloc[k] = "@" }
        start == IF ats = {} THEN 1
                 ELSE 1 + CHOOSE k \in ats : \A j \in ats : j <= k
        hostinfo == SubSeq(netloc, start, Len(netloc))
        host == SubSeq(hostinfo, 1, Find(hostinfo, {":"}, 1) - 1)
    IN  [k \in 1 .. Len(host) |-> Lower(host[k])]

-----------------------------------------------------------------------------
(* WarningList *)

\* A list of expected types that lets one more type through.
expected_types_and_more ==
    {"string", "substring", "hostname", "cidr", "regex", "other"}

expected_types == {"string", "substring", "hostname", "cidr", "regex"}

PyBool(b) == IF b THEN "True" ELSE "False"

HasKey(d, k) == k \in DOMAIN d

\* WarningList.__init__: the object, or the exception that leaves it.
\* version is an integer in a record, and int() of an integer is that integer.
WarningList(warninglist, slow_search) ==
    IF warninglist.type \notin expected_types
    THEN [raised |-> "PyMISPWarningListsError", self |-> None]
    ELSE
      LET base == [warninglist |-> warninglist,
                   list |-> warninglist.list,
                   set |-> { warninglist.list[i] : i \in 1 .. Len(warninglist.list) },
                   description |-> warninglist.description,
                   version |-> warninglist.version,
                   name |-> warninglist.name,
                   type |-> warninglist.type,
                   slow_search |-> slow_search]
          attrs == IF /\ HasKey(warninglist, "matching_attributes")
                      /\ warninglist.matching_attributes # <<>>
                   THEN [matching_attributes |-> warninglist.matching_attributes]
                   ELSE <<>>
          filters == compile_network_filters(warninglist.list)
      IN  IF slow_search /\ warninglist.type = "cidr"
          THEN IF filters.raised
               THEN [raised |-> "ValueError", self |-> None]
               ELSE [raised |-> "none",
                     self |-> base @@ attrs
                                @@ [ipv4_filter |-> filters.ipv4_filter,
                                    ipv6_filter |-> filters.ipv6_filter]]
          ELSE [raised |-> "none", self |-> base @@ attrs]

\* A search that takes an entry inside the value for the value.
_fast_search_substring(self, v) ==
    PyBool(\E i \in 1 .. Len(self.list) : IsSubstring(self.list[i], v))

\* WarningList._fast_search
_fast_search(self, v) == PyBool(v \in self.set)

\* The hostname test without the "." before the entry: any suffix matches.
hostname_match_any_suffix(h, v) == h = v \/ EndsWith(h, LStripDots(v))

\* The test of one entry v of a hostname list (api.py line 94):
\*   value == v or value.endswith("." + v.lstrip("."))
hostname_match(h, v) == h = v \/ EndsWith(h, <<".">> \o LStripDots(v))

\* The cidr branch without its default: False for what is no address.
cidr_search_no_fallback(self, v) ==
    IF IPAddress(4, v) >= 0
    THEN contains(self.ipv4_filter, IPAddress(4, v))
    ELSE IF IPAddress(6, v) >= 0
    THEN contains(self.ipv6_filter, IPAddress(6, v))
    ELSE "False"

\* The cidr branch (api.py lines 96-103): the IPv4 trie for an IPv4 address,
\* else the IPv6 trie for an IPv6 address, else the default, the fast search.
cidr_search(self, v) ==
    IF IPAddress(4, v) >= 0
    THEN contains(self.ipv4_filter, IPAddress(4, v))
    ELSE IF IPAddress(6, v) >= 0
    THEN contains(self.ipv6_filter, IPAddress(6, v))
    ELSE _fast_search(self, v)

\* WarningList._slow_search
_slow_search(self, v) ==
    IF self.type = "string" THEN _fast_search(self, v)
    ELSE IF self.type = "substring"
    THEN PyBool(\E i \in 1 .. Len(self.list) : IsSubstring(self.list[i], v))
    ELSE IF self.type = "hostname"
    THEN LET h == IF Hostname(v) # <<>> THEN Hostname(v) ELSE v
         IN  PyBool(\E i \in 1 .. Len(self.list) : hostname_match(h, self.list[i]))
    ELSE IF self.type = "cidr" THEN cidr_search(self, v)
    ELSE "False"

\* WarningList.__contains__
wl_contains(self, v) ==
    IF self.slow_search THEN _slow_search(self, v) ELSE _fast_search(self, v)

\* WarningList.to_dict; str(e) of an entry that is a string is the entry.
to_dict(self) ==
    [list |-> self.list, name |-> self.name, description |-> self.description,
     version |-> self.version, type |-> self.type]
        @@ (IF HasKey(self, "matching_attributes")
            THEN [matching_attributes |-> self.matching_attributes]
            ELSE <<>>)

-----------------------------------------------------------------------------
(* The records and the values the lists are built from and asked about *)

\* str(address): the bits as one-bit groups, most significant first.
FormatAddress(version, ip) ==
    [k \in 1 .. 2 * MaxPrefixLen(version) - 1 |->
        IF k % 2 = 1
        THEN Digits[GetDigit(MaxPrefixLen(version) - (k + 1) \div 2, ip) + 1]
        ELSE Sep(version)]

\* str(network): address "/" prefixlen.
FormatNetwork(net) ==
    FormatAddress(net.version, net.network_address)
        \o <<"/", Digits[net.prefixlen + 1]>>

Strings(chars, n) == UNION { [1 .. k -> chars] : k \in 1 .. n }

RECURSIVE Seqs(_, _)
Seqs(S, n) ==
    IF n = 0 THEN {<<>>}
    ELSE Seqs(S, n - 1)
           \cup { Append(l, e) : l \in { x \in Seqs(S, n - 1) : Len(x) = n - 1 },
                                 e \in S }

\* An order on the strings over "a" and ".", to list entries without repeats.
RECURSIVE Rank(_)
Rank(s) ==
    IF s = <<>> THEN 0
    ELSE 3 * Rank(SubSeq(s, 1, Len(s) - 1)) + (IF s[Len(s)] = "a" THEN 1 ELSE 2)

HostPool == Strings({"a", "."}, MaxEntryLen)

\* The hostname lists: up to MaxEntries distinct entries, in rank order.
HostLists ==
    { l \in Seqs(HostPool, MaxEntries) :
        \A i \in 1 .. Len(l) - 1 : Rank(l[i]) < Rank(l[i + 1]) }

Garbage == <<"x">>

\* A network text with a host bit set, which ip_network refuses.
HostBitsSet == FormatAddress(4, 1) \o <<"/", "1">>

CidrPool ==
    { FormatNetwork(n) : n \in { m \in NetworksOf(4) : InNetwork(0, m) } }
      \cup { FormatNetwork(Network(4, Pow2(V4Bits - 1), 1)),
             FormatAddress(4, 0),
             FormatNetwork(Network(6, 0, 0)),
             FormatNetwork(Network(6, 0, 1)),
             FormatAddress(6, Pow2(V6Bits) - 1),
             HostBitsSet, Garbage }

Record(name, type, list) ==
    [list |-> list, description |-> "d", version |-> 0,
     name |-> name, type |-> type]

Types == expected_types \cup {"other"}

CidrRecords == { Record("n", "cidr", l) : l \in Seqs(CidrPool, MaxEntries) }

HostRecords == { Record("n", "hostname", l) : l \in HostLists }

ShapeLists == {<<>>, << <<"a">> >>, << <<"a">>, <<".">> >>, << <<".">>, <<"a">> >>}

ShapeRecords ==
    { [Record("n", t, l) EXCEPT !.version = v] @@ a :
        t \in Types, l \in ShapeLists, v \in {0, 1},
        a \in {<<>>, [matching_attributes |-> <<>>],
               [matching_attributes |-> <<"ip-src">>]} }

Records == CidrRecords \cup HostRecords \cup ShapeRecords

Hosts == Strings({"a", "."}, MaxHostLen)

\* A hostname as it is, as a network-path reference, and inside a URL with
\* scheme, user, port and path, there after an upper-case letter.
NetworkPath(h) == <<"/", "/">> \o h

UrlOf(h) == <<"a", ":", "/", "/", "b", "@", "A">> \o h \o <<":", "8", "/", "a">>

HostValues ==
    Hosts \cup { NetworkPath(h) : h \in Hosts } \cup { UrlOf(h) : h \in Hosts }

CidrValues ==
    { FormatAddress(4, ip) : ip \in Addresses(4) }
      \cup { FormatAddress(6, ip) : ip \in Addresses(6) }
      \cup { FormatNetwork(n) : n \in NetworksOf(4) }
      \cup CidrPool

ValuesFor(type) == IF type = "cidr" THEN CidrValues ELSE HostValues

-----------------------------------------------------------------------------
(* WarningLists *)

\* self.warninglists[name] = wl: a new key goes last, a known key keeps its
\* place and takes the new value.
DictSet(d, k, v) ==
    [keys |-> IF \E i \in 1 .. Len(d.keys) : d.keys[i] = k
              THEN d.keys ELSE Append(d.keys, k),
     vals |-> [x \in {d.keys[i] : i \in 1 .. Len(d.keys)} \cup {k} |->
                  IF x = k THEN v ELSE d.vals[x]]]

\* The loop of WarningLists.__init__ (api.py lines 131-132); the exception
\* of a WarningList constructor leaves the loop and __init__.
RECURSIVE FillFrom(_, _, _)
FillFrom(d, records, slow_search) ==
    IF records = <<>>
    THEN [raised |-> "none", warninglists |-> d]
    ELSE LET r == WarningList(Head(records), slow_search)
         IN  IF r.raised # "none"
             THEN [raised |-> r.raised, warninglists |-> EmptyDict]
             ELSE FillFrom(DictSet(d, Head(records).name, r.self),
                           Tail(records), slow_search)

\* `if not lists`: None and the empty list are both false.
NotLists(arg) == arg.none \/ arg.seq = <<>>

\* WarningLists.__init__: with no lists given the list.json files of the
\* package (or of the given or XDG directory) are read; files are what
\* that directory holds.
WarningLists(slow_search, arg, files) ==
    LET read == IF NotLists(arg) THEN files ELSE arg.seq
    IN  IF read = <<>>
        THEN [raised |-> "PyMISPWarningListsError", warninglists |-> EmptyDict]
        ELSE FillFrom(EmptyDict, read, slow_search)

\* WarningLists.search: the lists that hold the value, in dict order.
RECURSIVE SearchFrom(_, _, _)
SearchFrom(d, keys, v) ==
    IF keys = <<>> THEN <<>>
    ELSE (IF wl_contains(d.vals[Head(keys)], v) = "True"
          THEN <<d.vals[Head(keys)]>> ELSE <<>>)
             \o SearchFrom(d, Tail(keys), v)

search(d, v) == SearchFrom(d, d.keys, v)

\* A search raises when one `value in wl` does.
SearchRaises(d, v) ==
    \E i \in 1 .. Len(d.keys) : wl_contains(d.vals[d.keys[i]], v) = "raise"

\* The records and values of the catalogs.
Block == FormatNetwork(Network(4, Pow2(V4Bits - 1), 1))

Inside == FormatAddress(4, Pow2(V4Bits) - 1)

\* Lists of every type, with the block, an address inside it or "a".
CatalogShapes ==
    { <<"cidr", <<Block>> >>, <<"cidr", <<Inside, <<"a">> >> >>,
      <<"string", <<Block>> >>, <<"hostname", << <<"a">> >> >>,
      <<"substring", << <<"a">> >> >>, <<"regex", <<Inside, <<"a">> >> >>,
      <<"other", << <<"a">> >> >> }

CatalogRecords ==
    { Record(n, x[1], x[2]) : n \in {"n", "m"}, x \in CatalogShapes }

\* Addresses below, at the start and at the end of the block, the block, and
\* hostnames as they are or inside a network-path reference.
CatalogValues ==
    { FormatAddress(4, 0), FormatAddress(4, Pow2(V4Bits - 1)), Inside,
      Block, <<"a">>, <<".", "a">>, <<"/", "/", "a">> }

DiskRecord == Record("disk", "string", << <<"a">> >>)

-----------------------------------------------------------------------------
(* The specification: one WarningList or one WarningLists, built and used *)

Init ==
    /\ ipv4_filter = NetworkFilter(V4Bits - 1)
    /\ ipv6_filter = NetworkFilter(V6Bits - 1)
    /\ appended = <<>>
    /\ raised = "none"
    /\ built = "no"
    /\ given = None
    /\ lists = NoLists
    /\ slow = FALSE
    /\ wl = None
    /\ on_disk = <<>>
    /\ warninglists = EmptyDict
    /\ value = <<>>
    /\ found = "none"
    /\ matches = <<>>
    /\ dumped = None

\* wl = WarningList(record, slow_search)
NewWarningList ==
    /\ built = "no"
    /\ \E record \in Records, slow_search \in BOOLEAN :
           /\ given' = record
           /\ slow' = slow_search
           /\ LET r == WarningList(record, slow_search)
              IN  /\ raised' = r.raised
                  /\ built' = IF r.raised = "none" THEN "list" ELSE "failed"
                  /\ wl' = r.self
    /\ UNCHANGED <<trieVars, lists, on_disk, warninglists, value, found,
                   matches, dumped>>

\* value in wl.  Neither this call nor to_dict writes to the list, so a later
\* call finds the list the first one found: a behaviour makes one call.
Contains ==
    /\ built = "list"
    /\ found = "none"
    /\ dumped = None
    /\ \E v \in ValuesFor(wl.type) :
           /\ value' = v
           /\ found' = wl_contains(wl, v)
    /\ UNCHANGED <<trieVars, raised, built, given, lists, slow, wl, on_disk,
                   warninglists, matches, dumped>>

\* wl.to_dict()
ToDict ==
    /\ built = "list"
    /\ found = "none"
    /\ dumped = None
    /\ dumped' = to_dict(wl)
    /\ UNCHANGED <<trieVars, raised, built, given, lists, slow, wl, on_disk,
                   warninglists, value, found, matches>>

\* WarningLists(slow_search, lists): lists is None or up to MaxLists records.
NewWarningLists ==
    /\ built = "no"
    /\ \E arg \in {NoLists} \cup {Lists(l) : l \in Seqs(CatalogRecords, MaxLists)},
          slow_search \in BOOLEAN,
          files \in {<<>>, <<DiskRecord>>} :
           /\ lists' = arg
           /\ slow' = slow_search
           /\ on_disk' = IF NotLists(arg) THEN files ELSE <<>>
           /\ LET r == WarningLists(slow_search, arg, on_disk')
              IN  /\ raised' = r.raised
                  /\ built' = IF r.raised = "none" THEN "catalog" ELSE "failed"
                  /\ warninglists' = r.warninglists
    /\ UNCHANGED <<trieVars, given, wl, value, found, matches, dumped>>

\* warninglists.search(value); like `value in wl` it writes nothing.
Search ==
    /\ built = "catalog"
    /\ found = "none"
    /\ \E v \in CatalogValues :
           /\ value' = v
           /\ IF SearchRaises(warninglists, v)
              THEN /\ raised' = "ValueError"
                   /\ found' = "raise"
                   /\ UNCHANGED matches
              ELSE /\ matches' = search(warninglists, v)
                   /\ found' = "searched"
                   /\ UNCHANGED raised
    /\ UNCHANGED <<trieVars, built, given, lists, slow, wl, on_disk,
                   warninglists, dumped>>

Next ==
    \/ NewWarningList
    \/ Contains
    \/ ToDict
    \/ NewWarningLists
    \/ Search

Spec == Init /\ [][Next]_vars

-----------------------------------------------------------------------------
(* Claims about the trie *)

Root(version) == IF version = 4 THEN ipv4_filter ELSE ipv6_filter

RootOf(f, version) == IF version = 4 THEN f.ipv4_filter ELSE f.ipv6_filter

Covered(networks, version, ip) ==
    \E i \in 1 .. Len(networks) :
        networks[i].version = version /\ InNetwork(ip, networks[i])

\* The orders in which the appended networks can be inserted.
Orders(networks) ==
    { [i \in 1 .. Len(networks) |-> networks[p[i]]] :
        p \in { q \in [1 .. Len(networks) -> 1 .. Len(networks)] :
                \A i, j \in 1 .. Len(networks) : q[i] = q[j] => i = j } }

\* C1: after any sequence of insertions, an address is reported as contained
\* exactly when it lies in the range of an inserted network of its family, and
\* every order of the same insertions gives the same answers.
C1_ContainsIffCovered ==
    \A version \in {4, 6} : \A ip \in Addresses(version) :
        /\ (contains(Root(version), ip) = "True")
              <=> Covered(appended, version, ip)
        /\ \A o \in Orders(appended) :
              contains(RootOf(compile_networks(o), version), ip)
                  = contains(Root(version), ip)

\* C2: inserting a /0 network succeeds, and afterwards every address of the
\* family is reported as contained.
C2_SlashZeroCoversAll ==
    \A i \in 1 .. Len(appended) :
        appended[i].prefixlen = 0 =>
            /\ raised = "none"
            /\ \A ip \in Addresses(appended[i].version) :
                   contains(Root(appended[i].version), ip) = "True"

Contained(inner, outer) ==
    /\ inner.version = outer.version
    /\ outer.prefixlen <= inner.prefixlen
    /\ InNetwork(inner.network_address, outer)

\* The child at the place where net terminates: the digit of net's last
\* prefix bit in the node at digit_position max_prefixlen - prefixlen.
RECURSIVE ChildAt(_, _)
ChildAt(self, net) ==
    IF self.isbool \/ ShiftRaises(self.digit_position)
    THEN self
    ELSE LET child == self.digit2filter[
                          GetDigit(self.digit_position, net.network_address)]
         IN  IF MaxPrefixLen(net.version) - net.prefixlen = self.digit_position
             THEN child
             ELSE ChildAt(child, net)

\* C3: when N1 contains N2, inserting N1 then N2, N2 then N1, and N1 alone
\* leave the same trie, with the single marker True at N1's place.
C3_NestedInsertSameTrie ==
    \A n1, n2 \in Networks :
        (Contained(n2, n1) /\ appended \in {<<n1, n2>>, <<n2, n1>>, <<n1>>}) =>
            /\ Root(n1.version) = RootOf(compile_networks(<<n1>>), n1.version)
            /\ Root(n1.version) = RootOf(compile_networks(<<n1, n2>>), n1.version)
            /\ Root(n1.version) = RootOf(compile_networks(<<n2, n1>>), n1.version)
            /\ ChildAt(Root(n1.version), n1) = Bool(TRUE)

\* The three claims restricted to prefix lengths of at least 1.
NoSlashZero == \A i \in 1 .. Len(appended) : appended[i].prefixlen >= 1

TrieSoundWithoutSlashZero ==
    NoSlashZero => C1_ContainsIffCovered /\ C3_NestedInsertSameTrie

\* Every nested node sits exactly one position below its parent and never
\* below 0 (so both children of a node at position 0 are booleans).
RECURSIVE WellPlaced(_)
WellPlaced(self) ==
    \A d \in {0, 1} :
        LET child == self.digit2filter[d]
        IN  child.isbool
            \/ /\ child.digit_position = self.digit_position - 1
               /\ child.digit_position >= 0
               /\ WellPlaced(child)

\* The number of nodes `ip in self` visits, the one whose shift raises included.
RECURSIVE Inspected(_, _)
Inspected(self, ip) ==
    IF ShiftRaises(self.digit_position)
    THEN 1
    ELSE LET child == self.digit2filter[GetDigit(self.digit_position, ip)]
         IN  IF child.isbool THEN 1 ELSE 1 + Inspected(child, ip)

\* C11: after any sequence of insertions into the two roots, every nested node
\* sits one position below its parent and never below 0, and every query
\* answers true or false after visiting at most as many nodes as the address
\* has bits, without evaluating a bit at a negative position.
C11_NodesNeverBelowZero ==
    \A version \in {4, 6} :
        /\ WellPlaced(Root(version))
        /\ \A ip \in Addresses(version) :
               /\ contains(Root(version), ip) \in {"True", "False"}
               /\ Inspected(Root(version), ip) <= MaxPrefixLen(version)

\* The same restricted to prefix lengths of at least 1.
NodesPlacedWithoutSlashZero == NoSlashZero => C11_NodesNeverBelowZero

-----------------------------------------------------------------------------
(* Claims about one list and about the catalog *)

FourKinds == {"string", "substring", "hostname", "cidr"}

FiveKinds == FourKinds \cup {"regex"}

Held == { warninglists.vals[k] : k \in DOMAIN warninglists.vals }

OnlyKinds(kinds) ==
    /\ built = "list" => given.type \in kinds
    /\ (given # None /\ given.type \notin kinds) =>
           /\ built = "failed"
           /\ raised = "PyMISPWarningListsError"
           /\ wl = None
           /\ found = "none"
    /\ \A w \in Held : w.type \in kinds
    /\ \A i \in 1 .. Len(matches) : matches[i].type \in kinds

IsEntry(self, v) == \E i \in 1 .. Len(self.list) : self.list[i] = v

IsAddressText(version, v) ==
    \E ip \in Addresses(version) : v = FormatAddress(version, ip)

AddressOf(version, v) ==
    CHOOSE ip \in Addresses(version) : v = FormatAddress(version, ip)

\* C5: in precise mode on a cidr list the text of an IPv4 address is answered
\* by the IPv4 trie, the text of an IPv6 address by the IPv6 trie, and any
\* other candidate matches exactly when it is one of the raw entries; the
\* text of a network is such a candidate.
C5_CidrDispatch ==
    (built = "list" /\ wl.type = "cidr" /\ wl.slow_search /\ found # "none") =>
        /\ IsAddressText(4, value) =>
               found = contains(wl.ipv4_filter, AddressOf(4, value))
        /\ IsAddressText(6, value) =>
               found = contains(wl.ipv6_filter, AddressOf(6, value))
        /\ (~IsAddressText(4, value) /\ ~IsAddressText(6, value)) =>
               found = PyBool(IsEntry(wl, value))
        /\ \A n \in Networks :
               (value = FormatNetwork(n) /\ ~IsEntry(wl, value)) => found = "False"

\* A sub-network of a listed block that is no entry itself was asked for.
C5_Witness ==
    /\ built = "list"
    /\ wl.type = "cidr"
    /\ wl.slow_search
    /\ found = "False"
    /\ \E sub, sup \in NetworksOf(4) :
           /\ sub # sup
           /\ Contained(sub, sup)
           /\ value = FormatNetwork(sub)
           /\ IsEntry(wl, FormatNetwork(sup))

\* The hostname component of a value, by the way the value was composed.
ExpectedHost(v) ==
    IF v \in Hosts THEN v
    ELSE IF \E h \in Hosts : v = NetworkPath(h)
    THEN CHOOSE h \in Hosts : v = NetworkPath(h)
    ELSE <<"a">> \o (CHOOSE h \in Hosts : v = UrlOf(h))

\* The entry without its leading dots.
Stripped(e) ==
    LET j == CHOOSE k \in 0 .. Len(e) :
                 /\ \A i \in 1 .. k : e[i] = "."
                 /\ k < Len(e) => e[k + 1] # "."
    IN  SubSeq(e, j + 1, Len(e))

HostRule(h, e) ==
    \/ h = e
    \/ \E k \in 0 .. Len(h) : h = SubSeq(h, 1, k) \o <<".">> \o Stripped(e)

\* The entry is only a suffix of the hostname that does not start a label.
OnlyUnalignedSuffix(h, e) ==
    \E k \in 1 .. Len(h) :
        /\ h = SubSeq(h, 1, k) \o Stripped(e)
        /\ h[k] # "."

\* C6: in precise mode a hostname list matches exactly when the hostname H of
\* the value equals an entry or ends with "." and the entry without its
\* leading dots; when every entry is only an unaligned suffix of H it does
\* not match.
C6_HostnameRule ==
    (built = "list" /\ wl.type = "hostname" /\ wl.slow_search /\ found # "none") =>
        /\ found = PyBool(\E i \in 1 .. Len(wl.list) :
                              HostRule(ExpectedHost(value), wl.list[i]))
        /\ (\A i \in 1 .. Len(wl.list) :
                OnlyUnalignedSuffix(ExpectedHost(value), wl.list[i]))
             => found = "False"

\* Entry "a" is an unaligned suffix of the hostname "aa" of a URL.
C6_Witness ==
    /\ built = "list"
    /\ wl.type = "hostname"
    /\ wl.slow_search
    /\ wl.list = << <<"a">> >>
    /\ value = UrlOf(<<"a">>)
    /\ found = "False"

\* C7: in fast mode search returns the held lists that have the value as a
\* raw entry, each once, whatever their type; an address inside a listed
\* block that is no entry is not returned, and is returned in precise mode.
C7_FastSearchExact ==
    (built = "catalog" /\ found = "searched") =>
        /\ ~slow =>
             /\ \A i, j \in 1 .. Len(matches) : matches[i] = matches[j] => i = j
             /\ { matches[i] : i \in 1 .. Len(matches) }
                    = { w \in Held : IsEntry(w, value) }
        /\ \A w \in Held :
               ( /\ w.type = "cidr"
                 /\ IsAddressText(4, value)
                 /\ ~IsEntry(w, value)
                 /\ \E n \in Networks :
                        /\ n.version = 4
                        /\ InNetwork(AddressOf(4, value), n)
                        /\ IsEntry(w, FormatNetwork(n)) )
               => ((\E i \in 1 .. Len(matches) : matches[i] = w) <=> slow)

\* A fast catalog holding a cidr list with the block was asked for an address
\* inside the block and returned nothing.
C7_Witness ==
    /\ built = "catalog"
    /\ ~slow
    /\ found = "searched"
    /\ value = FormatAddress(4, Pow2(V4Bits - 1))
    /\ \E w \in Held : w.type = "cidr" /\ IsEntry(w, Block)
    /\ matches = <<>>

\* C8: to_dict of the list built from a record is the record.
C8_RoundTrip == dumped # None => dumped = given

\* The entry is the text of an IPv4/IPv6 network or address.
IsNetworkText(e) ==
    \E n \in Networks :
        \/ e = FormatNetwork(n)
        \/ /\ n.prefixlen = MaxPrefixLen(n.version)
           /\ e = FormatAddress(n.version, n.network_address)

\* C9: building the tries of a cidr list that mixes valid and unparseable
\* entries does not fail, gives the tries of the valid entries alone, and
\* every valid entry matches.
C9_BadEntriesSkipped ==
    ( /\ given # None
      /\ given.type = "cidr"
      /\ slow
      /\ \E i \in 1 .. Len(given.list) : ~IsNetworkText(given.list[i])
      /\ \E i \in 1 .. Len(given.list) : IsNetworkText(given.list[i]) )
    => /\ built = "list"
       /\ LET alone == compile_network_filters(SelectSeq(given.list, IsNetworkText))
          IN  /\ wl.ipv4_filter = alone.ipv4_filter
              /\ wl.ipv6_filter = alone.ipv6_filter
       /\ \A i \in 1 .. Len(given.list) :
              IsNetworkText(given.list[i]) => wl_contains(wl, given.list[i]) = "True"

\* The last record of the sequence with the name.
LastNamed(records, name) ==
    records[CHOOSE i \in 1 .. Len(records) :
                /\ records[i].name = name
                /\ \A j \in i + 1 .. Len(records) : records[j].name # name]

\* C10: WarningLists(lists=[]) fails with the empty-catalog error; a non-empty
\* sequence of accepted records gives a catalog with one list per name, the
\* one of the last record of that name.
C10_EmptyListsFail ==
    /\ (built # "no" /\ ~lists.none /\ lists.seq = <<>>) =>
           /\ built = "failed"
           /\ raised = "PyMISPWarningListsError"
    /\ ( /\ built # "no" /\ ~lists.none /\ lists.seq # <<>>
         /\ \A i \in 1 .. Len(lists.seq) : lists.seq[i].type \in FiveKinds ) =>
           /\ built = "catalog"
           /\ DOMAIN warninglists.vals
                  = { lists.seq[i].name : i \in 1 .. Len(lists.seq) }
           /\ \A i, j \in 1 .. Len(warninglists.keys) :
                  warninglists.keys[i] = warninglists.keys[j] => i = j
           /\ \A k \in DOMAIN warninglists.vals :
                  warninglists.vals[k].warninglist = LastNamed(lists.seq, k)

\* The second half of C10 alone, and the code's rule for an empty sequence:
\* it is read as no sequence, and the files decide.
CatalogOfGivenOrFiles ==
    (built # "no" /\ ~lists.none /\ lists.seq = <<>>) =>
        IF on_disk = <<>>
        THEN built = "failed" /\ raised = "PyMISPWarningListsError"
        ELSE built = "catalog"
             /\ DOMAIN warninglists.vals
                    = { on_disk[i].name : i \in 1 .. Len(on_disk) }

====
